---- MODULE Spec2Model ----
(***************************************************************************)
(* CAP-ROC reference calculator (src/src/cap_roc_tool.py).                 *)
(*                                                                         *)
(* Number representation.  The program computes with binary floating      *)
(* point.  Here a float is an integer count of grid units, Scale units to  *)
(* 1.0, and every multiplication and division yields the grid value        *)
(* nearest the exact result, ties to even, as the float operations do.     *)
(* Additions and subtractions of grid values are exact.  float("nan") is   *)
(* the record NaN, which compares unequal to everything, itself included.  *)
(***************************************************************************)
EXTENDS Integers, Sequences, FiniteSets, TLC

\* Grid units per 1.0 (the precision of the modelled floats).
Scale == 1024

\* Extra precision inside the model of math.exp, as a factor of Scale.
ExpGuard == 32

----------------------------------------------------------------------------
(* Rounded arithmetic *)

\* n / d for d > 0, rounded to the nearest integer, ties to even.
RDiv(n, d) ==
    LET q == n \div d
        r == n % d
    IN  IF 2 * r < d THEN q
        ELSE IF 2 * r > d THEN q + 1
        ELSE IF q % 2 = 0 THEN q ELSE q + 1

\* a * b of two floats.
Mul(a, b) == RDiv(a * b, Scale)

\* a / b of two floats, b > 0.
Div(a, b) == RDiv(a * Scale, b)

\* Python's round(x) of a float: the nearest integer, ties to even.
PyRound(x) == RDiv(x, Scale)

Max(a, b) == IF a >= b THEN a ELSE b

----------------------------------------------------------------------------
(* math.exp(-lam), lam >= 0, to within a grid unit.  Internally in units   *)
(* of 1/Prec: the alternating series on [0, 1], then one factor e^-1 per   *)
(* whole unit of lam.  Like the library function it underflows to 0.0 for  *)
(* large lam.                                                              *)

Prec == ExpGuard * Scale

RECURSIVE ExpSeries(_, _, _, _)
ExpSeries(r, k, term, acc) ==
    LET t == RDiv(term * r, Scale * k)
    IN  IF t = 0 THEN acc
        ELSE ExpSeries(r, k + 1, t, IF k % 2 = 1 THEN acc - t ELSE acc + t)

\* e^(-r/Scale) in units of 1/Prec, 0 <= r <= Scale.
ExpFrac(r) == ExpSeries(r, 1, Prec, Prec)

RECURSIVE ExpPow(_, _)
ExpPow(q, v) ==
    IF q = 0 \/ v = 0 THEN v
    ELSE ExpPow(q - 1, RDiv(ExpFrac(Scale) * v, Prec))

ExpNeg(lam) == RDiv(ExpPow(lam \div Scale, ExpFrac(lam % Scale)), ExpGuard)

----------------------------------------------------------------------------
(* Values *)

\* float("nan") and ordinary floats, where a field may hold either.
NaN == [isnan |-> TRUE, v |-> 0]
Num(x) == [isnan |-> FALSE, v |-> x]

\* Python's == on two floats: false whenever either side is a NaN.
FloatEq(a, b) == ~a.isnan /\ ~b.isnan /\ a.v = b.v

\* Python's None, and an optional float argument.
None == [given |-> FALSE, v |-> 0]
Some(x) == [given |-> TRUE, v |-> x]

\* The outcome of a call that raised ValueError.
ValueError == [raised |-> TRUE, v |-> 0]
Value(x) == [raised |-> FALSE, v |-> x]

----------------------------------------------------------------------------
(* poisson_cdf, poisson_overload_prob *)

\* The loop of poisson_cdf from index i on.  Once term is 0.0 every later
\* term is 0.0 and total no longer changes, so the loop is cut there.
RECURSIVE CdfLoop(_, _, _, _, _)
CdfLoop(i, k, lam, term, total) ==
    IF i > k \/ term = 0 THEN total
    ELSE LET t == Mul(term, RDiv(lam, i))
         IN  CdfLoop(i + 1, k, lam, t, total + t)

\* The clamp of the sum to [0, 1].
Clamp(total) ==
    IF total < 0 THEN 0 ELSE IF total > Scale THEN Scale ELSE total

\* poisson_cdf(k, lam): a Value, or ValueError.
poisson_cdf(k, lam) ==
    IF k < 0 THEN Value(0)
    ELSE IF lam < 0 THEN ValueError
    ELSE Value(Clamp(CdfLoop(1, k, lam, ExpNeg(lam), ExpNeg(lam))))

\* poisson_overload_prob(lam, C) for lam >= 0 (no exception possible).
poisson_overload_prob(lam, C) == Scale - poisson_cdf(C, lam).v

----------------------------------------------------------------------------
(* Program constants *)

\* range(80) of the bracketing loop and of the binary search.
BracketCap == 80
BisectCap == 80

\* The bracketing loop gives up once hi exceeds 1e6.
HiCap == 1000000

\* The default tol of lambda_max_poisson, in grid units.  The program's
\* 1e-8 is some 2^26 spacings of the floats near 1.0; the grid here is
\* coarser, and the default is kept a few grid units wide so that, as in
\* the program, the tolerance is wider than the spacing of the numbers.
DefaultTol == 4

----------------------------------------------------------------------------
(* Inputs *)

RVals == {0, 3 * Scale, 20 * Scale}
PVals == {-1, 0, Scale \div 2, Scale, Scale + 1}
TprVals == {Scale \div 2, Scale, Scale + 1}
FprVals == {-1, 0, RDiv(3 * Scale, 10)}
CVals == {-1, 0, RDiv(6 * Scale, 5), 4 * Scale}
DeltaVals == {0, RDiv(Scale, 50), Scale \div 2, Scale - 1, Scale}
DeltaArgs == {None} \cup {Some(d) : d \in DeltaVals \ {Scale - 1}}

\* A capacity whose first hi, C + 1, is already past half of HiCap.
BigC == 600000

\* Arguments of direct calls of lambda_max_poisson and poisson_cdf.
CIntVals == {-1, 0, 1, 4, BigC}
TolVals == {0, DefaultTol, Scale}
KVals == {-1, 0, 2}
LamVals == {-1, 0, Scale, 3 * Scale}

----------------------------------------------------------------------------
(* State *)

VARIABLES
    pc,      \* "idle" | "bracket" | "bisect" | "done" | "raised"
    entry,   \* the function called: "none" | "poisson_cdf" | "lambda_max_poisson" | "cap_roc"
    args,    \* the arguments of the call
    locals,  \* cap_roc: A, passed_mean, fpr_max_mean, tpr_max_mean, once computed
    lm,      \* lambda_max_poisson: delta, C, tol
    lo, hi,  \* lambda_max_poisson: the bracket
    brk,     \* iterations of the bracketing loop entered
    bis,     \* iterations of the binary search completed
    evals,   \* calls of poisson_overload_prob made by lambda_max_poisson
    ret,     \* the value returned, once returned
    prev     \* the previous call of cap_roc and its result, when called again

vars == <<pc, entry, args, locals, lm, lo, hi, brk, bis, evals, ret, prev>>

NoArgs == [none |-> TRUE]
NoLocals == [computed |-> FALSE]
NoSearch == [active |-> FALSE]
NoRet == [set |-> FALSE]
NoPrev == [has |-> FALSE]
Ret(x) == [set |-> TRUE, val |-> x]

Init ==
    /\ pc = "idle"
    /\ entry = "none"
    /\ args = NoArgs
    /\ locals = NoLocals
    /\ lm = NoSearch
    /\ lo = 0
    /\ hi = 0
    /\ brk = 0
    /\ bis = 0
    /\ evals = 0
    /\ ret = NoRet
    /\ prev = NoPrev

----------------------------------------------------------------------------
(* lambda_max_poisson: the pieces of its two loops *)

\* Variant of DeltaOk: the interval closed at both ends.
DeltaOkClosed(delta) == 0 <= delta /\ delta <= Scale

\* The argument checks of lambda_max_poisson pass.
DeltaOk(delta) == 0 < delta /\ delta < Scale
LambdaArgsOk(delta, C) == DeltaOk(delta) /\ ~(C < 0)

\* poisson_overload_prob(lam, C) > delta, the test of both loops.
Unsafe(lam, C, delta) == poisson_overload_prob(lam, C) > delta

\* mid = 0.5 * (lo + hi)
Mid(l, h) == RDiv(l + h, 2)

\* Variant of NextLo: the branches exchanged.
NextLoSwapped(l, mid, unsafe) == IF unsafe THEN mid ELSE l

\* The two branches of the binary search.
NextLo(l, mid, unsafe) == IF unsafe THEN l ELSE mid
NextHi(h, mid, unsafe) == IF unsafe THEN mid ELSE h

\* Variant of Converged: tol * 1.0 + lo, the parentheses lost.
ConvergedLoose(l, h, tol) == h - l < Mul(tol, Scale) + l

\* hi - lo < tol * (1.0 + lo)
Converged(l, h, tol) == h - l < Mul(tol, Scale + l)

\* Variant of BisectMore: one iteration too many.
BisectMoreOffByOne(n) == n <= BisectCap

\* The binary search goes on after n completed iterations.
BisectMore(n) == n < BisectCap

\* The bracketing loop goes on after n iterations, hi just doubled to h.
BracketMore(n, h) == ~(h > HiCap * Scale) /\ n < BracketCap

\* return lo
SearchResult(l, h) == l

----------------------------------------------------------------------------
(* cap_roc: its straight-line parts *)

\* None of the argument checks of cap_roc raises.
RateArgsOk(a) ==
    /\ ~(a.R <= 0)
    /\ 0 <= a.p /\ a.p <= Scale
    /\ 0 <= a.tpr /\ a.tpr <= Scale
    /\ 0 <= a.fpr /\ a.fpr <= Scale
    /\ ~(a.C < 0)

\* Variant of RateA: (p - 1) for (1 - p).
RateASignSlip(R, p, tpr, fpr) == Mul(R, Mul(p, tpr) + Mul(p - Scale, fpr))

\* A = R * (p * tpr + (1 - p) * fpr)
RateA(R, p, tpr, fpr) == Mul(R, Mul(p, tpr) + Mul(Scale - p, fpr))

PassedMean(A, C) == A <= C

\* (C / R - p * tpr) / (1 - p) if p < 1, else float("nan")
FprMaxMean(R, p, tpr, C) ==
    IF p < Scale THEN Num(Div(Div(C, R) - Mul(p, tpr), Scale - p)) ELSE NaN

\* (C / R - (1 - p) * fpr) / p if p > 0, else float("nan")
TprMaxMean(R, p, fpr, C) ==
    IF p > 0 THEN Num(Div(Div(C, R) - Mul(Scale - p, fpr), p)) ELSE NaN

\* (lam_max / R - p * tpr) / (1 - p) if p < 1, else float("nan")
FprMaxDelta(R, p, tpr, lam_max) ==
    IF p < Scale THEN Num(Div(Div(lam_max, R) - Mul(p, tpr), Scale - p)) ELSE NaN

\* The locals of cap_roc up to tpr_max_mean.
MeanPart(a) ==
    LET A == RateA(a.R, a.p, a.tpr, a.fpr)
    IN  [computed |-> TRUE,
         A |-> A,
         passed_mean |-> PassedMean(A, a.C),
         fpr_max_mean |-> FprMaxMean(a.R, a.p, a.tpr, a.C),
         tpr_max_mean |-> TprMaxMean(a.R, a.p, a.fpr, a.C)]

\* C_int = int(round(C))
CInt(C) == PyRound(C)

\* delta_out, given lam_max.
DeltaOut(a, m, lam_max) ==
    [present |-> TRUE,
     delta |-> a.delta.v,
     C_int |-> CInt(a.C),
     lam_max |-> lam_max,
     overload_prob_at_A |-> poisson_overload_prob(m.A, CInt(a.C)),
     passed_delta |-> m.A <= lam_max,
     fpr_max_delta_raw |-> FprMaxDelta(a.R, a.p, a.tpr, lam_max)]

NoDelta == [present |-> FALSE]

\* The dict cap_roc returns.
Result(m, d) ==
    [A |-> m.A,
     passed_mean |-> m.passed_mean,
     fpr_max_mean_raw |-> m.fpr_max_mean,
     tpr_max_mean_raw |-> m.tpr_max_mean,
     C_required |-> m.A,
     delta |-> d]

----------------------------------------------------------------------------
(* Actions *)

\* lambda_max_poisson past its argument checks: lo = 0.0, hi = max(1.0, C + 1.0).
StartSearch(delta, C, tol) ==
    /\ pc' = "bracket"
    /\ lm' = [active |-> TRUE, delta |-> delta, C |-> C, tol |-> tol]
    /\ lo' = 0
    /\ hi' = Max(Scale, C * Scale + Scale)
    /\ brk' = 0
    /\ bis' = 0
    /\ evals' = 0
    /\ ret' = NoRet

\* No search is running.
ClearSearch ==
    /\ lm' = NoSearch
    /\ lo' = 0
    /\ hi' = 0
    /\ brk' = 0
    /\ bis' = 0
    /\ evals' = 0

\* A direct call poisson_cdf(k, lam).
CallPoissonCdf ==
    /\ pc = "idle"
    /\ \E k \in KVals, lam \in LamVals :
        LET r == poisson_cdf(k, lam)
        IN  /\ entry' = "poisson_cdf"
            /\ args' = [k |-> k, lam |-> lam]
            /\ pc' = IF r.raised THEN "raised" ELSE "done"
            /\ ret' = IF r.raised THEN NoRet ELSE Ret(r.v)
    /\ ClearSearch
    /\ UNCHANGED <<locals, prev>>

\* A direct call lambda_max_poisson(delta, C, tol), up to the first loop.
CallLambdaMax ==
    /\ pc = "idle"
    /\ \E delta \in DeltaVals, C \in CIntVals, tol \in TolVals :
        /\ entry' = "lambda_max_poisson"
        /\ args' = [delta |-> delta, C |-> C, tol |-> tol]
        /\ IF LambdaArgsOk(delta, C)
           THEN StartSearch(delta, C, tol)
           ELSE pc' = "raised" /\ ret' = NoRet /\ ClearSearch
    /\ UNCHANGED <<locals, prev>>

\* cap_roc(a.R, a.p, a.tpr, a.fpr, a.C, a.delta), up to its return, its
\* exception, or the first loop of lambda_max_poisson.
CapRocBody(a) ==
    /\ entry' = "cap_roc"
    /\ args' = a
    /\ IF ~RateArgsOk(a)
       THEN /\ pc' = "raised"
            /\ locals' = NoLocals
            /\ ret' = NoRet
            /\ ClearSearch
       ELSE /\ locals' = MeanPart(a)
            /\ IF ~a.delta.given
               THEN /\ pc' = "done"
                    /\ ret' = Ret(Result(MeanPart(a), NoDelta))
                    /\ ClearSearch
               ELSE IF LambdaArgsOk(a.delta.v, CInt(a.C))
                    THEN StartSearch(a.delta.v, CInt(a.C), DefaultTol)
                    ELSE pc' = "raised" /\ ret' = NoRet /\ ClearSearch

Evaluate ==
    /\ pc = "idle"
    /\ \E R \in RVals, p \in PVals, tpr \in TprVals, fpr \in FprVals,
          C \in CVals, delta \in DeltaArgs :
        CapRocBody([R |-> R, p |-> p, tpr |-> tpr, fpr |-> fpr, C |-> C,
                    delta |-> delta])
    /\ prev' = NoPrev

\* A second call of cap_roc after one that returned, with the same
\* arguments or with another fpr or another C.
EvaluateAgain ==
    /\ pc = "done"
    /\ entry = "cap_roc"
    /\ ~prev.has
    /\ \E fpr \in FprVals, C \in CVals :
        /\ fpr = args.fpr \/ C = args.C
        /\ CapRocBody([args EXCEPT !.fpr = fpr, !.C = C])
    /\ prev' = [has |-> TRUE, args |-> args, ret |-> ret.val]

\* One iteration of the bracketing loop.
BracketStep ==
    /\ pc = "bracket"
    /\ brk' = brk + 1
    /\ evals' = evals + 1
    /\ IF Unsafe(hi, lm.C, lm.delta)
       THEN hi' = hi /\ pc' = "bisect"
       ELSE /\ hi' = 2 * hi
            /\ pc' = IF BracketMore(brk + 1, 2 * hi) THEN "bracket" ELSE "bisect"
    /\ UNCHANGED <<entry, args, locals, lm, lo, bis, ret, prev>>

\* One iteration of the binary search and, when it is the last, the return
\* of lambda_max_poisson and the rest of its caller.
BisectStep ==
    /\ pc = "bisect"
    /\ LET mid == Mid(lo, hi)
           unsafe == Unsafe(mid, lm.C, lm.delta)
           nlo == NextLo(lo, mid, unsafe)
           nhi == NextHi(hi, mid, unsafe)
           lam_max == SearchResult(nlo, nhi)
       IN  /\ lo' = nlo
           /\ hi' = nhi
           /\ bis' = bis + 1
           /\ evals' = evals + 1
           /\ IF Converged(nlo, nhi, lm.tol) \/ ~BisectMore(bis + 1)
              THEN /\ pc' = "done"
                   /\ ret' = IF entry = "cap_roc"
                             THEN Ret(Result(locals, DeltaOut(args, locals, lam_max)))
                             ELSE Ret(lam_max)
              ELSE pc' = "bisect" /\ ret' = ret
    /\ UNCHANGED <<entry, args, locals, lm, brk, prev>>

\* The caller is done with the result or the exception.
Reset ==
    /\ pc \in {"done", "raised"}
    /\ pc' = "idle"
    /\ entry' = "none"
    /\ args' = NoArgs
    /\ locals' = NoLocals
    /\ ret' = NoRet
    /\ prev' = NoPrev
    /\ ClearSearch

Next ==
    \/ CallPoissonCdf
    \/ CallLambdaMax
    \/ Evaluate
    \/ EvaluateAgain
    \/ BracketStep
    \/ BisectStep
    \/ Reset

Spec == Init /\ [][Next]_vars

----------------------------------------------------------------------------
(* Properties *)

InSearch == lm.active /\ pc \in {"bracket", "bisect", "done"}
Returned == pc = "done" /\ ret.set
CapRocReturned == Returned /\ entry = "cap_roc"

\* C1: in every state of lambda_max_poisson, for every tol, lo is confirmed
\* safe, poisson_overload_prob(lo, C) <= delta, and the value returned is
\* lo, so the value returned is safe.
C1_ReturnedLambdaIsSafe ==
    InSearch =>
        /\ poisson_overload_prob(lo, lm.C) <= lm.delta
        /\ (Returned /\ entry = "lambda_max_poisson") =>
               /\ ret.val = lo
               /\ poisson_overload_prob(ret.val, lm.C) <= lm.delta
        /\ (Returned /\ entry = "cap_roc") =>
               /\ ret.val.delta.lam_max = lo
               /\ poisson_overload_prob(ret.val.delta.lam_max, lm.C) <= lm.delta

\* C1 witness: a direct call returned a lambda above 0 that the binary
\* search reached by advancing lo.
C1_Witness ==
    /\ Returned
    /\ entry = "lambda_max_poisson"
    /\ bis >= 3
    /\ ret.val > 0

\* The arguments for which the specification has evaluate fail.
RateInvalid(a) ==
    \/ a.R <= 0
    \/ a.p < 0 \/ a.p > Scale
    \/ a.tpr < 0 \/ a.tpr > Scale
    \/ a.fpr < 0 \/ a.fpr > Scale
    \/ a.C < 0
DeltaInvalid(a) == a.delta.given /\ (a.delta.v <= 0 \/ a.delta.v >= Scale)

\* C2: cap_roc raises exactly for R <= 0, p, tpr or fpr outside [0,1],
\* C < 0, or a delta outside the open interval (0,1); it then returns
\* nothing; on a bad R, p, tpr, fpr or C the rate A was never computed; on
\* every other input it returns a result.
C2_RaisesExactlyOnInvalidInput ==
    entry = "cap_roc" =>
        /\ (pc = "raised") <=> (RateInvalid(args) \/ DeltaInvalid(args))
        /\ pc = "raised" => ~ret.set
        /\ RateInvalid(args) => ~locals.computed
        /\ pc = "done" => ret.set

\* C2 witness: delta exactly 1 with valid rate inputs raised after A was
\* computed, and nothing was returned.
C2_Witness ==
    /\ entry = "cap_roc"
    /\ pc = "raised"
    /\ ~RateInvalid(args)
    /\ args.delta.given
    /\ args.delta.v = Scale
    /\ locals.computed
    /\ ~ret.set

\* C3 (as claimed): poisson_cdf raises for every lam < 0, whatever k, and
\* returns 0 for k < 0 only when lam >= 0.
C3_NegativeLamAlwaysRaises ==
    entry = "poisson_cdf" =>
        /\ args.lam < 0 => pc = "raised"
        /\ (pc = "done" /\ args.k < 0) => (args.lam >= 0 /\ ret.val = 0)

\* C4 (as claimed): the undefined bounds (fpr_max_mean and fpr_max_delta at
\* p = 1, tpr_max_mean at p = 0) are never a NaN.
C4_UndefinedIsNeverNaN ==
    CapRocReturned =>
        /\ args.p = Scale => ~ret.val.fpr_max_mean_raw.isnan
        /\ (args.p = Scale /\ ret.val.delta.present) =>
               ~ret.val.delta.fpr_max_delta_raw.isnan
        /\ args.p = 0 => ~ret.val.tpr_max_mean_raw.isnan
        /\ args.p < Scale => ~ret.val.fpr_max_mean_raw.isnan
        /\ args.p > 0 => ~ret.val.tpr_max_mean_raw.isnan

\* Python's == on the delta part of two results, field by field.
DeltaEq(x, y) ==
    IF x.present /\ y.present
    THEN /\ x.delta = y.delta
         /\ x.C_int = y.C_int
         /\ x.lam_max = y.lam_max
         /\ x.overload_prob_at_A = y.overload_prob_at_A
         /\ x.passed_delta = y.passed_delta
         /\ FloatEq(x.fpr_max_delta_raw, y.fpr_max_delta_raw)
    ELSE x.present = y.present

\* Python's == on two results of cap_roc, field by field.
ResultEq(x, y) ==
    /\ x.A = y.A
    /\ x.passed_mean = y.passed_mean
    /\ FloatEq(x.fpr_max_mean_raw, y.fpr_max_mean_raw)
    /\ FloatEq(x.tpr_max_mean_raw, y.tpr_max_mean_raw)
    /\ x.C_required = y.C_required
    /\ DeltaEq(x.delta, y.delta)

\* C5 (as claimed): two calls of cap_roc with identical valid inputs return
\* results whose every field compares equal, p = 0 and p = 1 included.
C5_SameInputsCompareEqual ==
    (CapRocReturned /\ prev.has /\ prev.args = args) =>
        ResultEq(prev.ret, ret.val)

\* C6: with everything else fixed, a larger fpr never gives a smaller A; a
\* larger C leaves A and C_required as they were and can change passed_mean
\* only from false to true.
C6_MonotoneInFprAndC ==
    (entry = "cap_roc" /\ prev.has /\ locals.computed) =>
        /\ (prev.args.C = args.C /\ prev.args.fpr <= args.fpr) =>
               prev.ret.A <= locals.A
        /\ (prev.args.C = args.C /\ prev.args.fpr >= args.fpr) =>
               prev.ret.A >= locals.A
        /\ (prev.args.fpr = args.fpr /\ prev.args.C <= args.C) =>
               /\ prev.ret.A = locals.A
               /\ prev.ret.passed_mean => locals.passed_mean
        /\ (prev.args.fpr = args.fpr /\ prev.args.C >= args.C) =>
               /\ prev.ret.A = locals.A
               /\ locals.passed_mean => prev.ret.passed_mean
        /\ (CapRocReturned /\ prev.args.fpr = args.fpr) =>
               ret.val.C_required = prev.ret.C_required

\* C6 witness: the second call raised fpr and A grew.
C6_Witness ==
    /\ CapRocReturned
    /\ prev.has
    /\ prev.args.C = args.C
    /\ prev.args.fpr < args.fpr
    /\ prev.ret.A < ret.val.A

\* C7: the bracketing loop runs at most 80 times and is left as soon as hi
\* is unsafe or exceeds 1,000,000 after a doubling; the binary search runs
\* at most 80 times; a call makes at most 80 + 80 evaluations of
\* poisson_overload_prob.
C7_LoopsAreBounded ==
    lm.active =>
        /\ brk <= 80
        /\ bis <= 80
        /\ evals = brk + bis
        /\ evals <= 160
        /\ pc = "bracket" => brk < 80
        /\ pc = "bisect" => bis < 80
        /\ (pc = "bracket" /\ brk > 0) =>
               /\ hi <= 1000000 * Scale
               /\ poisson_overload_prob(hi \div 2, lm.C) <= lm.delta

\* C7 witness: a search that used all 80 iterations of the binary search
\* after doubling hi at least once.
C7_Witness ==
    /\ Returned
    /\ lm.active
    /\ bis = 80
    /\ brk >= 2

\* How far above the returned lambda the tightness of C8 is sampled.
MaxEps == 64

C9_PassedDeltaMeansSafeAtA ==
    CapRocReturned =>
        /\ ret.val.delta.present <=> args.delta.given
        /\ (ret.val.delta.present /\ ret.val.delta.passed_delta) =>
               ret.val.delta.overload_prob_at_A <= args.delta.v

\* C10 (as claimed): the reported bounds invert the gates exactly:
\* passed_mean iff fpr <= fpr_max_mean (p < 1), passed_mean iff
\* tpr <= tpr_max_mean (p > 0), passed_delta iff fpr <= fpr_max_delta
\* (p < 1), and fpr_max_mean < 0 exactly when R * p * tpr > C.
C10_BoundsInvertTheGates ==
    CapRocReturned =>
        /\ args.p < Scale =>
               /\ ret.val.passed_mean <=>
                      args.fpr <= ret.val.fpr_max_mean_raw.v
               /\ ret.val.fpr_max_mean_raw.v < 0 <=>
                      (args.R \div Scale) * args.p * args.tpr > args.C * Scale
        /\ args.p > 0 =>
               (ret.val.passed_mean <=> args.tpr <= ret.val.tpr_max_mean_raw.v)
        /\ (args.p < Scale /\ ret.val.delta.present) =>
               (ret.val.delta.passed_delta <=>
                    args.fpr <= ret.val.delta.fpr_max_delta_raw.v)

====
